---- MODULE Spec2Model ----
(***************************************************************************)
(* Model of scrape_anthropic_blog.py: the extraction of article records    *)
(* from a parsed blog index page, the normalisation of their dates, the    *)
(* descending sort and the two Atom documents written from it.             *)
(*                                                                         *)
(* Text is a sequence of characters, so that strip(), the strptime()       *)
(* format match, urljoin() and isoformat() are computed and not assumed.   *)
(* An ASCII character is the one-character string of itself; a white-space *)
(* character outside ASCII is the string of its code point, "U+00A0" for   *)
(* the no-break space.  Letters and digits outside ASCII are not part of   *)
(* the alphabet.  Python's None is the value None below, which is no text. *)
(***************************************************************************)
EXTENDS Integers, Sequences, FiniteSets, TLC

\* ------------------------------------------------------------------ bounds
\* Longest page whose article records are drawn freely.
MaxArticles == 3
\* How many entries a long page may hold beyond the recent limit.
MaxExtra == 1
\* Number of microseconds the wall clock may advance during one run.
MaxClock == 2

\* ------------------------------------------------------- program constants
\* entries_data[:20]
RecentLimit == 20
\* dt_naive.replace(hour=12, minute=0, second=0, ...)
NoonHour == 12

\* -------------------------------------------------------------------- text
None == << "<None>" >>

\* the characters \x00 to \x7f; the null character and the grave accent
\* are written by their code points
Ascii ==
    { "U+0000", "", "", "", "", "", "", "",
      "", "\t", "\n", "", "\f", "\r", "", "",
      "", "", "", "", "", "", "", "",
      "", "", "", "", "", "", "", "",
      " ", "!", "\"", "#", "$", "%", "&", "'",
      "(", ")", "*", "+", ",", "-", ".", "/",
      "0", "1", "2", "3", "4", "5", "6", "7",
      "8", "9", ":", ";", "<", "=", ">", "?",
      "@", "A", "B", "C", "D", "E", "F", "G",
      "H", "I", "J", "K", "L", "M", "N", "O",
      "P", "Q", "R", "S", "T", "U", "V", "W",
      "X", "Y", "Z", "[", "\\", "]", "^", "_",
      "U+0060", "a", "b", "c", "d", "e", "f", "g",
      "h", "i", "j", "k", "l", "m", "n", "o",
      "p", "q", "r", "s", "t", "u", "v", "w",
      "x", "y", "z", "{", "|", "}", "~", "" }

\* the characters for which str.isspace() holds, which str.strip() removes
\* and \s matches: \t, \n, \v, \f, \r, \x1c to \x1f, the space, and the
\* white space outside ASCII
Whitespace ==
    { " ", "\t", "\n", "", "\f", "\r", "", "", "", "",
      "U+0085", "U+00A0", "U+1680", "U+2000", "U+2001", "U+2002",
      "U+2003", "U+2004", "U+2005", "U+2006", "U+2007", "U+2008",
      "U+2009", "U+200A", "U+2028", "U+2029", "U+202F", "U+205F",
      "U+3000" }

Digits == << "0", "1", "2", "3", "4", "5", "6", "7", "8", "9" >>

IsDigit(c) == \E i \in 1..10 : Digits[i] = c

DigitVal(c) == (CHOOSE i \in 1..10 : Digits[i] = c) - 1

UpperCase == << "A", "B", "C", "D", "E", "F", "G", "H", "I", "J", "K", "L", "M",
                "N", "O", "P", "Q", "R", "S", "T", "U", "V", "W", "X", "Y", "Z" >>

LowerCase == << "a", "b", "c", "d", "e", "f", "g", "h", "i", "j", "k", "l", "m",
                "n", "o", "p", "q", "r", "s", "t", "u", "v", "w", "x", "y", "z" >>

ToLower(c) ==
    IF \E i \in 1..26 : UpperCase[i] = c
    THEN LowerCase[CHOOSE i \in 1..26 : UpperCase[i] = c]
    ELSE c

\* s[from:] of Python, with 1-based from
Drop(s, from) == SubSeq(s, from, Len(s))

RECURSIVE LStrip(_)
LStrip(s) ==
    IF s # << >> /\ Head(s) \in Whitespace THEN LStrip(Tail(s)) ELSE s

RECURSIVE RStrip(_)
RStrip(s) ==
    IF s # << >> /\ s[Len(s)] \in Whitespace
    THEN RStrip(SubSeq(s, 1, Len(s) - 1))
    ELSE s

\* str.strip()
Strip(s) == RStrip(LStrip(s))

\* str.startswith(prefix)
StartsWith(s, prefix) ==
    /\ Len(s) >= Len(prefix)
    /\ SubSeq(s, 1, Len(prefix)) = prefix

\* bool(x) of Python for a value that is None or text
Truthy(x) == x # None /\ x # << >>

\* number of leading whitespace characters of s
RECURSIVE LeadingSpace(_)
LeadingSpace(s) ==
    IF s # << >> /\ Head(s) \in Whitespace THEN 1 + LeadingSpace(Tail(s)) ELSE 0

\* number of leading decimal digits of s
RECURSIVE LeadingDigits(_)
LeadingDigits(s) ==
    IF s # << >> /\ IsDigit(Head(s)) THEN 1 + LeadingDigits(Tail(s)) ELSE 0

\* value of the decimal numeral s
RECURSIVE Numeral(_)
Numeral(s) ==
    IF s = << >> THEN 0
    ELSE 10 * Numeral(SubSeq(s, 1, Len(s) - 1)) + DigitVal(s[Len(s)])

\* n written in decimal, zero-padded to at least width characters
RECURSIVE Pad(_, _)
Pad(n, width) ==
    IF width <= 1 /\ n < 10 THEN << Digits[n + 1] >>
    ELSE Pad(n \div 10, width - 1) \o << Digits[(n % 10) + 1] >>

\* --------------------------------------------------------------- datetimes
MonthAbbr == << <<"j","a","n">>, <<"f","e","b">>, <<"m","a","r">>, <<"a","p","r">>,
                <<"m","a","y">>, <<"j","u","n">>, <<"j","u","l">>, <<"a","u","g">>,
                <<"s","e","p">>, <<"o","c","t">>, <<"n","o","v">>, <<"d","e","c">> >>

IsLeap(y) == (y % 4 = 0) /\ ((y % 100 # 0) \/ (y % 400 = 0))

DaysInMonth(y, m) ==
    IF m = 2 THEN (IF IsLeap(y) THEN 29 ELSE 28)
    ELSE IF m \in {4, 6, 9, 11} THEN 30 ELSE 31

ValueError == [ok |-> FALSE]

\* datetime.strptime(s, "%b %d, %Y"): the naive datetime, or ValueError.
\* The format compiles to  (?P<b>jan|...|dec)\s+(?P<d>3[0-1]|[1-2]\d|0[1-9]|[1-9]| [1-9]),\s+(?P<Y>\d\d\d\d)
\* matched case-insensitively, and the whole of s must be consumed.
strptime(s) ==
    IF Len(s) < 3 THEN ValueError
    ELSE
    LET mon == [i \in 1..3 |-> ToLower(s[i])]
        r1  == Drop(s, 4)
        w1  == LeadingSpace(r1)
        r2  == Drop(r1, w1 + 1)
        nd  == LeadingDigits(r2)
        r3  == Drop(r2, nd + 1)
        r4  == IF r3 # << >> THEN Tail(r3) ELSE << >>
        w2  == LeadingSpace(r4)
        r5  == Drop(r4, w2 + 1)
    IN  IF /\ \E m \in 1..12 : MonthAbbr[m] = mon
           /\ w1 >= 1
           /\ nd \in {1, 2}
           /\ Numeral(SubSeq(r2, 1, nd)) \in 1..31
           /\ r3 # << >> /\ Head(r3) = ","
           /\ w2 >= 1
           /\ Len(r5) = 4 /\ LeadingDigits(r5) = 4
        THEN LET m == CHOOSE k \in 1..12 : MonthAbbr[k] = mon
                 d == Numeral(SubSeq(r2, 1, nd))
                 y == Numeral(r5)
             IN  IF y >= 1 /\ d <= DaysInMonth(y, m)
                 THEN [ok |-> TRUE, year |-> y, month |-> m, day |-> d,
                       hour |-> 0, minute |-> 0, second |-> 0,
                       microsecond |-> 0, tzinfo |-> "naive"]
                 ELSE ValueError
        ELSE ValueError

\* datetime.now(timezone.utc) when the wall clock stands at tick t: the run
\* starts two microseconds before noon of 2025-09-29 and t counts microseconds.
Now(t) ==
    LET us  == 999998 + t
        sec == 43199 + (us \div 1000000)
    IN  [year |-> 2025, month |-> 9, day |-> 29,
         hour |-> sec \div 3600, minute |-> (sec % 3600) \div 60, second |-> sec % 60,
         microsecond |-> us % 1000000, tzinfo |-> "UTC"]

DtKey(dt) == << dt.year, dt.month, dt.day, dt.hour, dt.minute, dt.second, dt.microsecond >>

\* a < b for two aware datetimes of the same zone
DtLess(a, b) ==
    LET ka == DtKey(a)
        kb == DtKey(b)
    IN  \E i \in 1..7 : /\ ka[i] < kb[i]
                        /\ \A j \in 1..(i - 1) : ka[j] = kb[j]

\* datetime.isoformat() of an aware UTC datetime
isoformat(dt) ==
    Pad(dt.year, 4) \o <<"-">> \o Pad(dt.month, 2) \o <<"-">> \o Pad(dt.day, 2)
    \o <<"T">> \o Pad(dt.hour, 2) \o <<":">> \o Pad(dt.minute, 2) \o <<":">> \o Pad(dt.second, 2)
    \o (IF dt.microsecond # 0 THEN <<".">> \o Pad(dt.microsecond, 6) ELSE << >>)
    \o <<"+","0","0",":","0","0">>

\* parse_date with the replace(hour=12, ...) dropped: midnight of the parsed date
parse_date_no_replace(date_text, now) ==
    IF ~Truthy(date_text) THEN [dt |-> now, warning |-> None]
    ELSE LET stripped == Strip(date_text)
             dt_naive == strptime(stripped)
         IN  IF dt_naive.ok
             THEN [dt |-> [year |-> dt_naive.year, month |-> dt_naive.month,
                           day |-> dt_naive.day, hour |-> dt_naive.hour,
                           minute |-> dt_naive.minute, second |-> dt_naive.second,
                           microsecond |-> dt_naive.microsecond, tzinfo |-> "UTC"],
                   warning |-> None]
             ELSE [dt |-> now, warning |-> stripped]

\* parse_date with the print of the except branch dropped
parse_date_silent(date_text, now) ==
    IF ~Truthy(date_text) THEN [dt |-> now, warning |-> None]
    ELSE LET stripped == Strip(date_text)
             dt_naive == strptime(stripped)
         IN  IF dt_naive.ok
             THEN [dt |-> [year |-> dt_naive.year, month |-> dt_naive.month,
                           day |-> dt_naive.day, hour |-> NoonHour, minute |-> 0,
                           second |-> 0, microsecond |-> dt_naive.microsecond,
                           tzinfo |-> "UTC"],
                   warning |-> None]
             ELSE [dt |-> now, warning |-> None]

\* parse_date(date_text), when datetime.now(timezone.utc) returns now: the
\* datetime returned, and the text named by the warning written to stderr
\* (None when nothing is written).
parse_date(date_text, now) ==
    IF ~Truthy(date_text) THEN [dt |-> now, warning |-> None]
    ELSE LET stripped == Strip(date_text)
             dt_naive == strptime(stripped)
         IN  IF dt_naive.ok
             THEN [dt |-> [year |-> dt_naive.year, month |-> dt_naive.month,
                           day |-> dt_naive.day, hour |-> NoonHour, minute |-> 0,
                           second |-> 0, microsecond |-> dt_naive.microsecond,
                           tzinfo |-> "UTC"],
                   warning |-> None]
             ELSE [dt |-> now, warning |-> stripped]

\* -------------------------------------------------------------------- URLs
IsLetter(c) == \E i \in 1..26 : UpperCase[i] = c \/ LowerCase[i] = c

\* scheme_chars of urllib.parse
IsSchemeChar(c) == IsLetter(c) \/ IsDigit(c) \/ c \in {"+", "-", "."}

\* _WHATWG_C0_CONTROL_OR_SPACE: the characters \x00 to \x1f, and the space
C0ControlOrSpace ==
    { "U+0000", "", "", "", "", "", "", "",
      "", "\t", "\n", "", "\f", "\r", "", "",
      "", "", "", "", "", "", "", "",
      "", "", "", "", "", "", "", "",
      " " }

\* _UNSAFE_URL_BYTES_TO_REMOVE
UnsafeUrlChars == {"\t", "\r", "\n"}

\* uses_relative of urllib.parse
UsesRelative ==
    { << >>,
      << "f", "t", "p" >>,
      << "h", "t", "t", "p" >>,
      << "g", "o", "p", "h", "e", "r" >>,
      << "n", "n", "t", "p" >>,
      << "i", "m", "a", "p" >>,
      << "w", "a", "i", "s" >>,
      << "f", "i", "l", "e" >>,
      << "h", "t", "t", "p", "s" >>,
      << "s", "h", "t", "t", "p" >>,
      << "m", "m", "s" >>,
      << "p", "r", "o", "s", "p", "e", "r", "o" >>,
      << "r", "t", "s", "p" >>,
      << "r", "t", "s", "p", "s" >>,
      << "r", "t", "s", "p", "u" >>,
      << "s", "f", "t", "p" >>,
      << "s", "v", "n" >>,
      << "s", "v", "n", "+", "s", "s", "h" >>,
      << "w", "s" >>,
      << "w", "s", "s" >> }

\* uses_netloc of urllib.parse
UsesNetloc ==
    { << >>,
      << "f", "t", "p" >>,
      << "h", "t", "t", "p" >>,
      << "g", "o", "p", "h", "e", "r" >>,
      << "n", "n", "t", "p" >>,
      << "t", "e", "l", "n", "e", "t" >>,
      << "i", "m", "a", "p" >>,
      << "w", "a", "i", "s" >>,
      << "f", "i", "l", "e" >>,
      << "m", "m", "s" >>,
      << "h", "t", "t", "p", "s" >>,
      << "s", "h", "t", "t", "p" >>,
      << "s", "n", "e", "w", "s" >>,
      << "p", "r", "o", "s", "p", "e", "r", "o" >>,
      << "r", "t", "s", "p" >>,
      << "r", "t", "s", "p", "s" >>,
      << "r", "t", "s", "p", "u" >>,
      << "r", "s", "y", "n", "c" >>,
      << "s", "v", "n" >>,
      << "s", "v", "n", "+", "s", "s", "h" >>,
      << "s", "f", "t", "p" >>,
      << "n", "f", "s" >>,
      << "g", "i", "t" >>,
      << "g", "i", "t", "+", "s", "s", "h" >>,
      << "w", "s" >>,
      << "w", "s", "s" >> }

\* uses_params of urllib.parse
UsesParams ==
    { << >>,
      << "f", "t", "p" >>,
      << "h", "d", "l" >>,
      << "p", "r", "o", "s", "p", "e", "r", "o" >>,
      << "h", "t", "t", "p" >>,
      << "i", "m", "a", "p" >>,
      << "h", "t", "t", "p", "s" >>,
      << "s", "h", "t", "t", "p" >>,
      << "r", "t", "s", "p" >>,
      << "r", "t", "s", "p", "s" >>,
      << "r", "t", "s", "p", "u" >>,
      << "s", "i", "p" >>,
      << "s", "i", "p", "s" >>,
      << "m", "m", "s" >>,
      << "s", "f", "t", "p" >>,
      << "t", "e", "l" >> }

\* str.lower() of ASCII text
Lower(s) == [i \in 1..Len(s) |-> ToLower(s[i])]

\* s.lstrip(chars)
RECURSIVE LStripChars(_, _)
LStripChars(s, chars) ==
    IF s # << >> /\ Head(s) \in chars THEN LStripChars(Tail(s), chars) ELSE s

\* s.strip(chars)
RECURSIVE StripChars(_, _)
StripChars(s, chars) ==
    LET l == LStripChars(s, chars)
    IN  IF l # << >> /\ l[Len(l)] \in chars
        THEN StripChars(SubSeq(l, 1, Len(l) - 1), chars) ELSE l

\* s with every character of chars removed
RemoveChars(s, chars) == SelectSeq(s, LAMBDA c : c \notin chars)

\* 1-based index of the first character of s at or after from that is in
\* chars, or 0: s.find(c, from - 1) + 1
RECURSIVE FindFrom(_, _, _)
FindFrom(s, chars, from) ==
    IF from > Len(s) THEN 0
    ELSE IF s[from] \in chars THEN from
    ELSE FindFrom(s, chars, from + 1)

\* 1-based index of the last c of s, or 0: s.rfind(c) + 1
RECURSIVE RFind(_, _)
RFind(s, c) ==
    IF s = << >> THEN 0
    ELSE IF s[Len(s)] = c THEN Len(s)
    ELSE RFind(SubSeq(s, 1, Len(s) - 1), c)

\* s.split(c)
RECURSIVE Split(_, _)
Split(s, c) ==
    LET i == FindFrom(s, {c}, 1)
    IN  IF i = 0 THEN << s >>
        ELSE << SubSeq(s, 1, i - 1) >> \o Split(Drop(s, i + 1), c)

\* c.join(parts)
RECURSIVE Join(_, _)
Join(parts, c) ==
    IF parts = << >> THEN << >>
    ELSE IF Len(parts) = 1 THEN parts[1]
    ELSE parts[1] \o << c >> \o Join(Tail(parts), c)

\* the mark of a call that raises ValueError, and of a URL the model does
\* not join
UrlValueError == << "<ValueError>" >>

Unmodelled == << "<unmodelled>" >>

\* urlsplit, the scheme: url[:i].lower() and url[i+1:] when the text before
\* the first colon starts with a letter and holds scheme characters only
split_scheme(url, scheme) ==
    LET i == FindFrom(url, {":"}, 1)
    IN  IF /\ i > 1
           /\ IsLetter(url[1])
           /\ \A k \in 1..(i - 1) : IsSchemeChar(url[k])
        THEN [scheme |-> Lower(SubSeq(url, 1, i - 1)), url |-> Drop(url, i + 1)]
        ELSE [scheme |-> scheme, url |-> url]

\* urlsplit, the netloc: _splitnetloc(url, 2) when url[:2] == '//'
split_netloc(url) ==
    LET d == FindFrom(url, {"/", "?", "#"}, 3)
    IN  IF ~StartsWith(url, << "/", "/" >>) THEN [netloc |-> << >>, url |-> url]
        ELSE IF d = 0 THEN [netloc |-> Drop(url, 3), url |-> << >>]
        ELSE [netloc |-> SubSeq(url, 3, d - 1), url |-> Drop(url, d)]

\* url.split(c, 1): the text before the first c, and the text after it
split_once(url, c) ==
    LET i == FindFrom(url, {c}, 1)
    IN  IF i = 0 THEN [head |-> url, tail |-> << >>]
        ELSE [head |-> SubSeq(url, 1, i - 1), tail |-> Drop(url, i + 1)]

\* urlsplit, the checks of the netloc: "ValueError" (Invalid IPv6 URL: one
\* bracket only), "unmodelled" (a bracketed host, which _check_bracketed_host
\* would have to accept, or a character outside ASCII, which _checknetloc
\* would have to normalise), or "ok"
netloc_status(netloc) ==
    LET open  == FindFrom(netloc, {"["}, 1) > 0
        close == FindFrom(netloc, {"]"}, 1) > 0
    IN  IF open /\ close THEN "unmodelled"
        ELSE IF open \/ close THEN "ValueError"
        ELSE IF \E k \in 1..Len(netloc) : netloc[k] \notin Ascii THEN "unmodelled"
        ELSE "ok"

\* urlsplit, from the netloc on: the fragment is split off what follows the
\* netloc, the query off what is left
split_path(scheme, net, frag) ==
    [status   |-> netloc_status(net.netloc),
     scheme   |-> scheme,
     netloc   |-> net.netloc,
     path     |-> split_once(frag.head, "?").head,
     query    |-> split_once(frag.head, "?").tail,
     fragment |-> frag.tail]

\* urlsplit, once the scheme is split off
split_rest(scheme, net) == split_path(scheme, net, split_once(net.url, "#"))

\* urlsplit, once url and scheme are stripped
split_stripped(sch) == split_rest(sch.scheme, split_netloc(sch.url))

\* urlsplit(url, scheme), with the status of its netloc
urlsplit(url, scheme) ==
    split_stripped(split_scheme(
        RemoveChars(LStripChars(url, C0ControlOrSpace), UnsafeUrlChars),
        RemoveChars(StripChars(scheme, C0ControlOrSpace), UnsafeUrlChars)))

\* _splitparams(url): the params of the last segment of the path, when the
\* scheme uses params and the path holds a semicolon
split_params(scheme, path) ==
    LET slash == RFind(path, "/")
        semi  == FindFrom(path, {";"}, IF slash = 0 THEN 1 ELSE slash)
    IN  IF scheme \in UsesParams /\ semi > 0
        THEN [path |-> SubSeq(path, 1, semi - 1), params |-> Drop(path, semi + 1)]
        ELSE [path |-> path, params |-> << >>]

\* urlparse, once the URL is split into sp and its path into pp
parsed_url(sp, pp) ==
    [status   |-> sp.status,
     scheme   |-> sp.scheme,
     netloc   |-> sp.netloc,
     path     |-> pp.path,
     params   |-> pp.params,
     query    |-> sp.query,
     fragment |-> sp.fragment]

\* urlparse, once the URL is split into sp
with_params(sp) == parsed_url(sp, split_params(sp.scheme, sp.path))

\* urlparse(url, scheme)
urlparse(url, scheme) == with_params(urlsplit(url, scheme))

\* urlunsplit: '//' and the netloc put before the path
with_netloc(scheme, netloc, url) ==
    IF \/ netloc # << >>
       \/ (scheme # << >> /\ scheme \in UsesNetloc /\ ~StartsWith(url, << "/", "/" >>))
    THEN << "/", "/" >> \o netloc
         \o (IF url # << >> /\ Head(url) # "/" THEN << "/" >> ELSE << >>) \o url
    ELSE url

\* urlunparse((scheme, netloc, path, params, query, fragment))
urlunparse(scheme, netloc, path, params, query, fragment) ==
    (IF scheme # << >> THEN scheme \o << ":" >> ELSE << >>)
    \o with_netloc(scheme, netloc,
                   IF params # << >> THEN path \o << ";" >> \o params ELSE path)
    \o (IF query # << >> THEN << "?" >> \o query ELSE << >>)
    \o (IF fragment # << >> THEN << "#" >> \o fragment ELSE << >>)

\* the loop of urljoin over the segments: ".." drops the last segment kept,
\* "." is skipped
RECURSIVE ResolveSegments(_, _)
ResolveSegments(resolved, segments) ==
    IF segments = << >> THEN resolved
    ELSE IF Head(segments) = << ".", "." >>
    THEN ResolveSegments(IF resolved = << >> THEN << >>
                         ELSE SubSeq(resolved, 1, Len(resolved) - 1), Tail(segments))
    ELSE IF Head(segments) = << "." >> THEN ResolveSegments(resolved, Tail(segments))
    ELSE ResolveSegments(Append(resolved, Head(segments)), Tail(segments))

\* segments[1:-1] = filter(None, segments[1:-1])
DropEmptyInner(segments) ==
    IF Len(segments) < 2 THEN segments
    ELSE << segments[1] >>
         \o SelectSeq(SubSeq(segments, 2, Len(segments) - 1), LAMBDA seg : seg # << >>)
         \o << segments[Len(segments)] >>

\* bpath.split('/'), without its last part when that is not empty
base_parts(bpath) ==
    LET parts == Split(bpath, "/")
    IN  IF parts[Len(parts)] # << >> THEN SubSeq(parts, 1, Len(parts) - 1) ELSE parts

\* the segments of the joined path, before the dots are resolved
join_segments(bpath, path) ==
    IF path # << >> /\ Head(path) = "/"
    THEN Split(path, "/")
    ELSE DropEmptyInner(base_parts(bpath) \o Split(path, "/"))

\* the joined path: the resolved segments, closed by an empty one when the
\* last segment is a dot segment
resolve_path(segments) ==
    LET resolved == ResolveSegments(<< >>, segments)
        joined   == Join(IF segments[Len(segments)] \in { << "." >>, << ".", "." >> }
                         THEN Append(resolved, << >>) ELSE resolved, "/")
    IN  IF joined # << >> THEN joined ELSE << "/" >>

\* urljoin, once base and url are parsed into b and r and the schemes agree
join_parsed(b, r) ==
    IF r.scheme \in UsesNetloc /\ r.netloc # << >>
    THEN urlunparse(r.scheme, r.netloc, r.path, r.params, r.query, r.fragment)
    ELSE IF r.path = << >> /\ r.params = << >>
    THEN urlunparse(r.scheme,
                    IF r.scheme \in UsesNetloc THEN b.netloc ELSE r.netloc,
                    b.path, b.params,
                    IF r.query = << >> THEN b.query ELSE r.query, r.fragment)
    ELSE urlunparse(r.scheme,
                    IF r.scheme \in UsesNetloc THEN b.netloc ELSE r.netloc,
                    resolve_path(join_segments(b.path, r.path)),
                    r.params, r.query, r.fragment)

\* urljoin, once base and url are parsed into b and r
join_checked(b, r, url) ==
    IF b.status = "ValueError" THEN UrlValueError
    ELSE IF b.status = "unmodelled" THEN Unmodelled
    ELSE IF r.status = "ValueError" THEN UrlValueError
    ELSE IF r.status = "unmodelled" THEN Unmodelled
    ELSE IF r.scheme # b.scheme \/ r.scheme \notin UsesRelative THEN url
    ELSE join_parsed(b, r)

\* urljoin, once base is parsed into b: url is parsed with the scheme of b
\* for its default
join_base(b, url) == join_checked(b, urlparse(url, b.scheme), url)

\* urljoin(base, url) of urllib.parse: the joined URL, UrlValueError when the
\* call raises ValueError, Unmodelled when base or url has a netloc the model
\* does not check
urljoin(base, url) ==
    IF base = << >> THEN url
    ELSE IF url = << >> THEN base
    ELSE join_base(urlparse(base, << >>), url)

\* ------------------------------------------------------------- extraction
AnthropicEngineering ==
    << "h","t","t","p","s",":","/","/","w","w","w",".","a","n","t","h","r","o","p","i","c",
       ".","c","o","m","/","e","n","g","i","n","e","e","r","i","n","g" >>

FeedTitle == << "A","n","t","h","r","o","p","i","c"," ","E","n","g","i","n","e","e","r","i","n","g",
                " ","B","l","o","g" >>

AuthorName == << "A","n","t","h","r","o","p","i","c" >>

UnknownArticle == << "U","n","k","n","o","w","n"," ","A","r","t","i","c","l","e" >>

\* the feed element built before the articles are visited
base_feed_element(base_url, now) ==
    [title |-> FeedTitle, id |-> base_url, author |-> AuthorName,
     link_href |-> base_url, link_rel |-> "self",
     updated |-> isoformat(now), children |-> << >>]

\* title: text of the first h2/h3 of class "bold", stripped
entry_title(article) ==
    IF article.title_elem # None THEN Strip(article.title_elem) ELSE UnknownArticle

\* href of the card link, "" without a link or without an href
entry_href(article) ==
    IF article.link_elem.found /\ Truthy(article.link_elem.href)
    THEN article.link_elem.href
    ELSE << >>

entry_url(article, base_url) == urljoin(base_url, entry_href(article))

\* summary: stripped text of the summary paragraph, "" without one
entry_summary(article) ==
    IF article.summary_elem # None THEN Strip(article.summary_elem) ELSE << >>

\* date_text: stripped text of the date div, None without one
entry_date_text(article) ==
    IF article.date_elem # None THEN Strip(article.date_elem) ELSE None

Para(text) == << "<", "p", ">" >> \o text \o << "<", "/", "p", ">" >>

ImgTag(src, alt) ==
    << "<","i","m","g"," ","s","r","c","=","\"" >> \o src
    \o << "\""," ","a","l","t","=","\"" >> \o alt \o << "\""," ","/",">" >>

\* entry_content with the test of the src attribute dropped
entry_content_any_img(article) ==
    LET summary == entry_summary(article)
        img     == article.img_elem
    IN  IF img.found
        THEN (IF summary # << >> THEN Para(summary) ELSE << >>)
             \o Para(ImgTag(IF img.src # None THEN img.src ELSE << "N", "o", "n", "e" >>,
                            IF img.alt # None THEN img.alt ELSE << >>))
        ELSE IF summary # << >> THEN Para(summary)
        ELSE None

\* text of the content element, None when no content element is added
entry_content(article) ==
    LET summary == entry_summary(article)
        img     == article.img_elem
    IN  IF img.found /\ Truthy(img.src)
        THEN (IF summary # << >> THEN Para(summary) ELSE << >>)
             \o Para(ImgTag(img.src, IF img.alt # None THEN img.alt ELSE << >>))
        ELSE IF summary # << >> THEN Para(summary)
        ELSE None

\* the entry element of an article, given its URL and its parsed date
entry_of(article, index, url, parsed) ==
    [dt      |-> parsed.dt,
     warning |-> parsed.warning,
     entry   |-> [article |-> index,
                  title   |-> entry_title(article),
                  id      |-> url,
                  link_href |-> url,
                  summary |-> IF entry_summary(article) # << >>
                              THEN entry_summary(article) ELSE None,
                  updated |-> isoformat(parsed.dt),
                  content |-> entry_content(article)]]

\* one pass of the loop over the articles: the entry element (article is the
\* identity of the element object, its position on the page), the datetime it
\* is sorted by, and the warning parse_date writes
make_entry(article, index, base_url, now) ==
    entry_of(article, index, entry_url(article, base_url),
             parse_date(entry_date_text(article), now))

\* ---------------------------------------------------------------- the sort
\* item placed after every element whose key is not smaller than its own
RECURSIVE InsertDesc(_, _)
InsertDesc(sorted, item) ==
    IF sorted = << >> THEN << item >>
    ELSE IF DtLess(Head(sorted).dt, item.dt) THEN << item >> \o sorted
    ELSE << Head(sorted) >> \o InsertDesc(Tail(sorted), item)

RECURSIVE SortFrom(_, _)
SortFrom(sorted, rest) ==
    IF rest = << >> THEN sorted
    ELSE SortFrom(InsertDesc(sorted, Head(rest)), Tail(rest))

\* item placed before every element whose key is not greater than its own
RECURSIVE InsertDescFirst(_, _)
InsertDescFirst(sorted, item) ==
    IF sorted = << >> THEN << item >>
    ELSE IF ~DtLess(item.dt, Head(sorted).dt) THEN << item >> \o sorted
    ELSE << Head(sorted) >> \o InsertDescFirst(Tail(sorted), item)

RECURSIVE SortFromFirst(_, _)
SortFromFirst(sorted, rest) ==
    IF rest = << >> THEN sorted
    ELSE SortFromFirst(InsertDescFirst(sorted, Head(rest)), Tail(rest))

\* the sort done as an ascending sort that is then reversed: equal keys end
\* in reverse order
sort_entries_reversed(entries) == SortFromFirst(<< >>, entries)

RECURSIVE InsertAsc(_, _)
InsertAsc(sorted, item) ==
    IF sorted = << >> THEN << item >>
    ELSE IF DtLess(item.dt, Head(sorted).dt) THEN << item >> \o sorted
    ELSE << Head(sorted) >> \o InsertAsc(Tail(sorted), item)

RECURSIVE SortFromAsc(_, _)
SortFromAsc(sorted, rest) ==
    IF rest = << >> THEN sorted
    ELSE SortFromAsc(InsertAsc(sorted, Head(rest)), Tail(rest))

\* the sort with reverse=True forgotten
sort_entries_ascending(entries) == SortFromAsc(<< >>, entries)

\* entries_data.sort(key=lambda item: item[0], reverse=True): stable, and
\* reverse keeps the original order of items with equal keys
sort_entries(entries) == SortFrom(<< >>, entries)

\* the slice taken one element too long
recent_entries_one_more(entries) ==
    SubSeq(entries, 1, IF Len(entries) < RecentLimit + 1 THEN Len(entries) ELSE RecentLimit + 1)

\* entries_data[:20]
recent_entries(entries) ==
    SubSeq(entries, 1, IF Len(entries) < RecentLimit THEN Len(entries) ELSE RecentLimit)

\* --------------------------------------------------------------- the saves
\* the entries appended to the base element itself, with no copy taken
build_feed_in_place(base, entries) ==
    [feed |-> [base EXCEPT !.children = base.children \o [i \in 1..Len(entries) |-> entries[i].entry]],
     base |-> [base EXCEPT !.children = base.children \o [i \in 1..Len(entries) |-> entries[i].entry]]]

\* the element serialised by save_atom_feed, and the base element as the call
\* leaves it: the entries go to a deep copy
build_feed(base, entries) ==
    [feed |-> [base EXCEPT !.children = base.children \o [i \in 1..Len(entries) |-> entries[i].entry]],
     base |-> base]

\* the IOError of a failed write left to propagate to html_to_atom
after_write_raises(ok, next) == IF ok THEN next ELSE "exit1"

\* pc after the write of a document, ok or not: the IOError of a failed write
\* is caught and reported inside save_atom_feed
after_write(ok, next) == next

\* ------------------------------------------------------------------ inputs
Sep29 == << "S","e","p"," ","2","9",","," ","2","0","2","5" >>

Sep30 == << "S","e","p"," ","3","0",","," ","2","0","2","5" >>

BadDate == << "2","9"," ","S","e","p" >>

NoLink == [found |-> FALSE, href |-> None]

NoImg == [found |-> FALSE, src |-> None, alt |-> None]

DefaultArticle ==
    [title_elem   |-> << "T" >>,
     link_elem    |-> [found |-> TRUE, href |-> << "/", "p" >>],
     summary_elem |-> << "S" >>,
     date_elem    |-> Sep30,
     img_elem     |-> [found |-> TRUE, src |-> << "I" >>, alt |-> << "A" >>]]

\* text of the heading: no heading, empty, blank, padded, plain
TitleElems ==
    { None, << >>, << " " >>, << "\r", "\n" >>, << " ", "T", "\n" >>, << "T", "\r", "\n" >>,
      << "U+00A0", "T", "" >>, << "T" >> }

LinkElems ==
    { NoLink,
      [found |-> TRUE, href |-> None],
      [found |-> TRUE, href |-> << >>],
      [found |-> TRUE, href |-> << "/", "p" >>],
      [found |-> TRUE, href |-> << "p" >>],
      [found |-> TRUE, href |-> << "h","t","t","p","s",":","/","/","b",".","i","o","/","q" >>],
      [found |-> TRUE, href |-> << "H","T","T","P","S",":","/","/","B",".","i","o","/","q" >>],
      [found |-> TRUE, href |-> << "h","2",":","/","/","x","/","y" >>],
      [found |-> TRUE, href |-> << "m","a","i","l","t","o",":","x","@","y" >>],
      [found |-> TRUE, href |-> << " " >>],
      [found |-> TRUE, href |-> << "?","q","=","1" >>],
      [found |-> TRUE, href |-> << "#","f" >>],
      [found |-> TRUE, href |-> << ".",".","/","x" >>],
      [found |-> TRUE, href |-> << ".","/","p" >>],
      [found |-> TRUE, href |-> << "/","/","[" >>] }

SummaryElems == { None, << " " >>, << "\r" >>, << "\f", "S", "\r", "\n" >> }

ImgElems ==
    { NoImg,
      [found |-> TRUE, src |-> None, alt |-> << "A" >>],
      [found |-> TRUE, src |-> << >>, alt |-> << "A" >>],
      [found |-> TRUE, src |-> << "I" >>, alt |-> None],
      [found |-> TRUE, src |-> << "I" >>, alt |-> << "A" >>] }

DateElems ==
    { None, << " " >>, << " ", "\r", " " >>, BadDate, Sep29, Sep30,
      << " ","s","E","p"," "," ","9",",","\t","2","0","2","4","\n" >>,
      << "\f","O","c","t","\r","\n","7",",","U+00A0","2","0","2","3","" >>,
      << "F","e","b"," ","2","9",","," ","2","0","2","4" >>,
      << "F","e","b"," ","2","9",","," ","2","0","2","5" >>,
      << "S","e","p"," ","0","9",","," ","2","0","2","5" >>,
      << "S","e","p"," ","3","2",","," ","2","0","2","5" >>,
      << "S","e","p"," ","2","9",","," ","2","0","2","5","5" >>,
      << "D","e","c"," ","3","1",","," ","0","0","0","0" >> }

\* the dates of the articles of a long page, in turn
DatePool == << Sep30, Sep29, None, Sep30, Sep29, Sep29, Sep30, BadDate, Sep29, Sep30 >>

\* the dates of the articles of a short page
ShortDates == { None, Sep29, Sep30 }

\* article records that differ from the default one in one group of fields
ArticlePool ==
    { [DefaultArticle EXCEPT !.title_elem = t] : t \in TitleElems }
    \cup { [DefaultArticle EXCEPT !.link_elem = l] : l \in LinkElems }
    \cup { [DefaultArticle EXCEPT !.summary_elem = su, !.img_elem = im] :
              su \in SummaryElems, im \in ImgElems }
    \cup { [DefaultArticle EXCEPT !.date_elem = d] : d \in DateElems }

Dated(d) == [DefaultArticle EXCEPT !.date_elem = d, !.img_elem = NoImg]

\* a page of n articles whose dates run through DatePool from offset on
LongPage(n, offset) ==
    [i \in 1..n |-> Dated(DatePool[((i + offset) % Len(DatePool)) + 1])]

Pages ==
    { << >> }
    \cup { << a >> : a \in ArticlePool }
    \cup UNION { [1..n -> { Dated(d) : d \in ShortDates }] : n \in 2..MaxArticles }
    \cup { LongPage(n, o) : n \in (RecentLimit - 1)..(RecentLimit + MaxExtra), o \in 0..1 }

FileUrl == << "f","i","l","e",":","/","/","p",".","h","t","m","l" >>

HttpUrl == << "h","t","t","p","s",":","/","/","a",".","i","o","/","e","n","g","/" >>

Urls == { FileUrl, HttpUrl }

FilePrefix == << "f","i","l","e",":","/","/" >>

output_full_filename == "atom.xml"

output_recent_filename == "atom-recent-20.xml"

\* ------------------------------------------------------------------- state
VARIABLES
    pc,            \* position in html_to_atom
    url,           \* the command line argument
    page,          \* the article nodes soup.find_all returns, in document order
    base_url,      \* base of the relative links, None before the fetch
    clock,         \* microseconds the wall clock has advanced
    base_feed,     \* base_feed_element, None before it is built
    entries_data,  \* list of (datetime, entry element)
    console,       \* what was printed, in order: [stream, kind, arg]
    files          \* filename -> the documents it holds (none or one)

vars == << pc, url, page, base_url, clock, base_feed, entries_data, console, files >>

Init ==
    /\ pc = "fetch"
    /\ url \in Urls
    /\ page \in Pages
    /\ base_url = None
    /\ clock = 0
    /\ base_feed = None
    /\ entries_data = << >>
    /\ console = << >>
    /\ files = [f \in {output_full_filename, output_recent_filename} |-> << >>]

\* the wall clock advances between two readings
Tick ==
    /\ pc = "create" \/ (pc = "extract" /\ Len(entries_data) < Len(page))
    /\ clock < MaxClock
    /\ clock' = clock + 1
    /\ UNCHANGED << pc, url, page, base_url, base_feed, entries_data, console, files >>

\* url is file://path and the file is read
FetchFile ==
    /\ pc = "fetch"
    /\ StartsWith(url, FilePrefix)
    /\ base_url' = AnthropicEngineering
    /\ pc' = "create"
    /\ UNCHANGED << url, page, clock, base_feed, entries_data, console, files >>

\* url is fetched over HTTP
FetchHttp ==
    /\ pc = "fetch"
    /\ ~StartsWith(url, FilePrefix)
    /\ base_url' = url
    /\ pc' = "create"
    /\ UNCHANGED << url, page, clock, base_feed, entries_data, console, files >>

\* the local file url[7:] is missing, or the request fails: the message
\* names the file path, or the URL, and the exit status is 1
FetchFails ==
    /\ pc = "fetch"
    /\ console' = Append(console,
          IF StartsWith(url, FilePrefix)
          THEN [stream |-> "stderr", kind |-> "file_error", arg |-> Drop(url, 8)]
          ELSE [stream |-> "stderr", kind |-> "fetch_error", arg |-> url])
    /\ pc' = "exit1"
    /\ UNCHANGED << url, page, base_url, clock, base_feed, entries_data, files >>

\* what the last handler of html_to_atom prints for the exception e: the
\* message, then the traceback
unexpected_error(e) ==
    << [stream |-> "stderr", kind |-> "unexpected_error", arg |-> e],
       [stream |-> "stderr", kind |-> "traceback", arg |-> e] >>

\* the local file url[7:] exists and cannot be read as UTF-8 text: open()
\* raises an OSError that is no FileNotFoundError (a directory, no
\* permission), or read() a UnicodeDecodeError; exit status 1
FetchUnexpected ==
    /\ pc = "fetch"
    /\ StartsWith(url, FilePrefix)
    /\ \E e \in {"OSError", "UnicodeDecodeError"} :
          console' = console \o unexpected_error(e)
    /\ pc' = "exit1"
    /\ UNCHANGED << url, page, base_url, clock, base_feed, entries_data, files >>

\* create_base_feed_and_entries up to the loop
CreateBaseFeed ==
    /\ pc = "create"
    /\ base_feed' = base_feed_element(base_url, Now(clock))
    /\ entries_data' = << >>
    /\ pc' = "extract"
    /\ UNCHANGED << url, page, base_url, clock, console, files >>

\* entries_data.append((updated_dt, entry)), and the warning parse_date wrote
append_entry(made) ==
    /\ entries_data' = Append(entries_data, [dt |-> made.dt, entry |-> made.entry])
    /\ console' = IF made.warning # None
                  THEN Append(console, [stream |-> "stderr", kind |-> "date_warning",
                                        arg |-> made.warning])
                  ELSE console

\* urljoin raises ValueError for the href of the next article: the exception
\* leaves create_base_feed_and_entries before the date of the article is
\* parsed, and html_to_atom exits with status 1
ExtractRaises ==
    /\ pc = "extract"
    /\ Len(entries_data) < Len(page)
    /\ entry_url(page[Len(entries_data) + 1], base_url) = UrlValueError
    /\ console' = console \o unexpected_error("ValueError")
    /\ pc' = "exit1"
    /\ UNCHANGED << url, page, base_url, clock, base_feed, entries_data, files >>

\* one pass of the loop over the articles, when urljoin returns; no step is
\* defined for an href whose join is Unmodelled
ExtractArticle ==
    /\ pc = "extract"
    /\ Len(entries_data) < Len(page)
    /\ entry_url(page[Len(entries_data) + 1], base_url) \notin {UrlValueError, Unmodelled}
    /\ append_entry(make_entry(page[Len(entries_data) + 1], Len(entries_data) + 1,
                               base_url, Now(clock)))
    /\ UNCHANGED << pc, url, page, base_url, clock, base_feed, files >>

\* the loop is over: entries_data.sort(...)
SortEntries ==
    /\ pc = "extract"
    /\ Len(entries_data) = Len(page)
    /\ entries_data' = sort_entries(entries_data)
    /\ pc' = "save_full"
    /\ UNCHANGED << url, page, base_url, clock, base_feed, console, files >>

\* save_atom_feed(filename, base_feed_element, entries): pretty tells whether
\* lxml re-parses the serialised feed, ok whether the file can be written
save_atom_feed(filename, entries, pretty, ok, next) ==
    LET built == build_feed(base_feed, entries)
        doc   == [declaration |-> TRUE, pretty |-> pretty, feed |-> built.feed]
    IN  /\ base_feed' = built.base
        /\ files' = IF ok THEN [files EXCEPT ![filename] = << doc >>] ELSE files
        /\ console' = console
              \o (IF pretty THEN << >>
                  ELSE << [stream |-> "stderr", kind |-> "pretty_error", arg |-> filename] >>)
              \o << IF ok THEN [stream |-> "stdout", kind |-> "saved", arg |-> filename]
                    ELSE [stream |-> "stderr", kind |-> "write_error", arg |-> filename] >>
        /\ pc' = after_write(ok, next)

SaveFull ==
    /\ pc = "save_full"
    /\ \E pretty \in BOOLEAN, ok \in BOOLEAN :
          save_atom_feed(output_full_filename, entries_data, pretty, ok, "save_recent")
    /\ UNCHANGED << url, page, base_url, clock, entries_data >>

SaveRecent ==
    /\ pc = "save_recent"
    /\ \E pretty \in BOOLEAN, ok \in BOOLEAN :
          save_atom_feed(output_recent_filename, recent_entries(entries_data), pretty, ok, "done")
    /\ UNCHANGED << url, page, base_url, clock, entries_data >>

Next ==
    \/ Tick
    \/ FetchFile
    \/ FetchHttp
    \/ FetchFails
    \/ FetchUnexpected
    \/ CreateBaseFeed
    \/ ExtractRaises
    \/ ExtractArticle
    \/ SortEntries
    \/ SaveFull
    \/ SaveRecent

Spec == Init /\ [][Next]_vars

\* ------------------------------------------------------------- properties
Sorted == pc \in {"save_full", "save_recent", "done"}

\* the article node an entry of entries_data was made from
ArticleOf(item) == page[item.entry.article]

\* the datetime the entry element made from article number a is sorted by
DtOfArticle(a) ==
    entries_data[CHOOSE k \in 1..Len(entries_data) : entries_data[k].entry.article = a].dt

\* the datetimes the first n of the entry elements ch are sorted by
RECURSIVE DtsOf(_, _)
DtsOf(ch, n) ==
    IF n = 0 THEN << >> ELSE Append(DtsOf(ch, n - 1), DtOfArticle(ch[n].article))

\* the entry elements of the document the file holds, << >> for no document
ChildrenOf(f) == IF files[f] = << >> THEN << >> ELSE files[f][1].feed.children

Written(f) == files[f] # << >>

Min(a, b) == IF a < b THEN a ELSE b

\* the date texts of the model that name a date of the calendar, with the date
\* named; every other date text of the model names none
KnownDates ==
    { [text |-> Sep29, year |-> 2025, month |-> 9, day |-> 29],
      [text |-> Sep30, year |-> 2025, month |-> 9, day |-> 30],
      [text |-> << "F","e","b"," ","2","9",","," ","2","0","2","4" >>,
       year |-> 2024, month |-> 2, day |-> 29],
      [text |-> << "S","e","p"," ","0","9",","," ","2","0","2","5" >>,
       year |-> 2025, month |-> 9, day |-> 9],
      [text |-> << " ","s","E","p"," "," ","9",",","\t","2","0","2","4","\n" >>,
       year |-> 2024, month |-> 9, day |-> 9],
      [text |-> << "\f","O","c","t","\r","\n","7",",","U+00A0","2","0","2","3","" >>,
       year |-> 2023, month |-> 10, day |-> 7] }

\* the date text of the article is missing (no node, or blank text)
DateMissing(article) ==
    article.date_elem = None \/ Strip(article.date_elem) = << >>

\* the date text of the article is there and names no date
DateMalformed(article) ==
    ~DateMissing(article) /\ \A known \in KnownDates : article.date_elem # known.text

WarningsOf(out) == SelectSeq(out, LAMBDA m : m.kind = "date_warning")

WriteReports == SelectSeq(console, LAMBDA m : m.kind \in {"saved", "write_error"})

\* number of i in 1..n with P[i]
RECURSIVE CountTrue(_, _)
CountTrue(P, n) == IF n = 0 THEN 0 ELSE CountTrue(P, n - 1) + (IF P[n] THEN 1 ELSE 0)

\* C1: in every document written the entries stand in descending order of
\* their timestamps, entries of equal timestamp in the order of extraction,
\* and the full document holds every extracted entry.
C1_SortedStable ==
    \A f \in DOMAIN files :
       LET ch == ChildrenOf(f)
           dt == DtsOf(ch, Len(ch))
       IN  /\ \A i \in 1..Len(ch) : \A j \in (i + 1)..Len(ch) :
                 /\ ~DtLess(dt[i], dt[j])
                 /\ dt[i] = dt[j] => ch[i].article < ch[j].article
           /\ (f = output_full_filename /\ Written(f))
                 => { ch[i].article : i \in 1..Len(ch) } = 1..Len(page) /\ Len(ch) = Len(page)

\* both documents written, the sort moved an entry forward, and two entries of
\* equal timestamp are in the documents
C1_Witness ==
    /\ pc = "done"
    /\ Written(output_full_filename) /\ Written(output_recent_filename)
    /\ LET ch == ChildrenOf(output_recent_filename)
       IN  /\ \E i \in 1..Len(ch) : \E j \in (i + 1)..Len(ch) : ch[i].article > ch[j].article
           /\ \E i \in 1..Len(ch) : \E j \in (i + 1)..Len(ch) :
                 DtOfArticle(ch[i].article) = DtOfArticle(ch[j].article)
           /\ \E i \in 1..Len(ch) : \E j \in (i + 1)..Len(ch) :
                 DtLess(DtOfArticle(ch[j].article), DtOfArticle(ch[i].article))

\* C2: the recent document holds min(20, n) entries, the first ones of the
\* full document in the same order, for every number n of extracted entries;
\* a run fails only at the fetch or on an href that urljoin rejects, never on
\* the number of entries, and a run that fails writes no document.
C2_RecentIsPrefix ==
    /\ Written(output_recent_filename) =>
          LET ch == ChildrenOf(output_recent_filename)
              n  == Min(20, Len(page))
          IN  /\ Len(ch) = n
              /\ ch = [i \in 1..n |-> entries_data[i].entry]
              /\ Written(output_full_filename)
                    => ch = SubSeq(ChildrenOf(output_full_filename), 1, n)
    /\ Written(output_full_filename) =>
          ChildrenOf(output_full_filename) = [i \in 1..Len(page) |-> entries_data[i].entry]
    /\ pc = "exit1" =>
          /\ ~Written(output_full_filename) /\ ~Written(output_recent_filename)
          /\ \/ base_url = None
             \/ /\ Len(entries_data) < Len(page)
                /\ entry_url(page[Len(entries_data) + 1], base_url) = UrlValueError

\* a page of more than 20 articles, both documents written
C2_Witness ==
    /\ pc = "done"
    /\ Len(page) > 20
    /\ Written(output_full_filename) /\ Written(output_recent_filename)
    /\ Len(ChildrenOf(output_recent_filename)) = 20
    /\ Len(ChildrenOf(output_full_filename)) = Len(page)

\* C3: an entry made from an article without a link anchor, or with an anchor
\* that carries no href, has the empty string as its id and as the href of its
\* link, for every base URL.
C3_NoLinkEmptyUrl ==
    \A k \in 1..Len(entries_data) :
       LET link == ArticleOf(entries_data[k]).link_elem
       IN  (~link.found \/ link.href = None)
              => /\ entries_data[k].entry.id = << >>
                 /\ entries_data[k].entry.link_href = << >>

\* C4: the title of an entry is never empty: it is the stripped text of the
\* heading, or "Unknown Article" when there is no heading or its text is
\* empty or blank.
C4_TitleNeverEmpty ==
    \A k \in 1..Len(entries_data) :
       LET heading == ArticleOf(entries_data[k]).title_elem
           title   == entries_data[k].entry.title
       IN  /\ title # << >>
           /\ title # None
           /\ IF heading # None /\ Strip(heading) # << >>
              THEN title = Strip(heading)
              ELSE title = << "U","n","k","n","o","w","n"," ","A","r","t","i","c","l","e" >>

\* C5 as stated: every entry whose date text is missing or malformed carries
\* the current instant, and each of them has its warning on stderr.
C5_FallbackAlwaysWarns ==
    /\ \A k \in 1..Len(entries_data) :
          (DateMissing(ArticleOf(entries_data[k])) \/ DateMalformed(ArticleOf(entries_data[k])))
             => \E t \in 0..clock : entries_data[k].dt = Now(t)
    /\ Len(WarningsOf(console)) =
          CountTrue([i \in 1..Len(entries_data) |->
                        DateMissing(page[i]) \/ DateMalformed(page[i])], Len(entries_data))

\* C5 amended: every entry whose date text is missing or malformed carries
\* the current instant; the warnings on stderr are those of the articles with
\* a malformed date text, in the order of extraction, each naming the stripped
\* text; a missing date text falls back without a warning.
C5_WarnsOnMalformedOnly ==
    /\ \A k \in 1..Len(entries_data) :
          (DateMissing(ArticleOf(entries_data[k])) \/ DateMalformed(ArticleOf(entries_data[k])))
             => \E t \in 0..clock : entries_data[k].dt = Now(t)
    /\ LET bad == SelectSeq([i \in 1..Len(entries_data) |-> page[i]], DateMalformed)
           w   == WarningsOf(console)
       IN  /\ Len(w) = Len(bad)
           /\ \A i \in 1..Len(w) : w[i].stream = "stderr" /\ w[i].arg = Strip(bad[i].date_elem)

\* every article extracted, one with a missing and one with a malformed date
\* text, and fewer warnings than fallbacks
C5_Witness ==
    /\ Sorted
    /\ \E i \in 1..Len(page) : DateMissing(page[i])
    /\ \E i \in 1..Len(page) : DateMalformed(page[i])
    /\ Len(WarningsOf(console)) >= 2
    /\ Len(WarningsOf(console)) <
          CountTrue([i \in 1..Len(page) |-> DateMissing(page[i]) \/ DateMalformed(page[i])],
                    Len(page))

\* C6: an entry whose date text names a date of the calendar carries that date
\* at 12:00:00 UTC, whatever the wall clock reads, its updated element is the
\* ISO form of that instant, and no warning names its date text.
C6_NoonOfNamedDate ==
    /\ \A k \in 1..Len(entries_data) : \A known \in KnownDates :
          ArticleOf(entries_data[k]).date_elem = known.text
             => /\ entries_data[k].dt =
                      [year |-> known.year, month |-> known.month, day |-> known.day,
                       hour |-> 12, minute |-> 0, second |-> 0, microsecond |-> 0,
                       tzinfo |-> "UTC"]
                /\ known.text = Sep29 =>
                      entries_data[k].entry.updated =
                         << "2","0","2","5","-","0","9","-","2","9","T","1","2",":","0","0",":","0","0",
                            "+","0","0",":","0","0" >>
    /\ \A i \in 1..Len(console) : \A known \in KnownDates :
          console[i].kind = "date_warning" => console[i].arg # Strip(known.text)

\* an entry made from "Sep 29, 2025" after the wall clock has passed noon of
\* that day
C6_Witness ==
    /\ clock = MaxClock
    /\ Now(clock).hour = 12
    /\ \E k \in 1..Len(entries_data) :
          /\ ArticleOf(entries_data[k]).date_elem = Sep29
          /\ entries_data[k].dt.hour = 12
          /\ entries_data[k].dt.day = 29

\* the stripped summary text of the article, << >> without a summary node
SummaryText(article) ==
    IF article.summary_elem = None THEN << >> ELSE Strip(article.summary_elem)

\* the content the articles of the model are to get, written out: S is the
\* summary text, I the src and A the alt of the image
ExpectedContent(hasSummary, hasImage, alt) ==
    IF hasImage /\ hasSummary /\ alt = << "A" >>
    THEN << "<","p",">","S","<","/","p",">","<","p",">","<","i","m","g"," ","s","r","c","=","\"","I","\"",
            " ","a","l","t","=","\"","A","\""," ","/",">","<","/","p",">" >>
    ELSE IF hasImage /\ hasSummary
    THEN << "<","p",">","S","<","/","p",">","<","p",">","<","i","m","g"," ","s","r","c","=","\"","I","\"",
            " ","a","l","t","=","\"","\""," ","/",">","<","/","p",">" >>
    ELSE IF hasImage /\ alt = << "A" >>
    THEN << "<","p",">","<","i","m","g"," ","s","r","c","=","\"","I","\"",
            " ","a","l","t","=","\"","A","\""," ","/",">","<","/","p",">" >>
    ELSE IF hasImage
    THEN << "<","p",">","<","i","m","g"," ","s","r","c","=","\"","I","\"",
            " ","a","l","t","=","\"","\""," ","/",">","<","/","p",">" >>
    ELSE IF hasSummary THEN << "<","p",">","S","<","/","p",">" >>
    ELSE None

\* C7 as stated: the content is there exactly when a summary or an image node
\* is, and is made of the summary paragraph and the image paragraph.
C7_ContentIffSummaryOrImage ==
    \A k \in 1..Len(entries_data) :
       LET article == ArticleOf(entries_data[k])
           img     == article.img_elem
       IN  /\ (entries_data[k].entry.content # None)
                 <=> (SummaryText(article) # << >> \/ img.found)
           /\ entries_data[k].entry.content =
                 ExpectedContent(SummaryText(article) # << >>, img.found,
                                 IF img.alt = None THEN << >> ELSE img.alt)

\* C7 amended: the content is there exactly when the stripped summary text is
\* not empty or the first image node has a non-empty src; an image node
\* without a src counts as no image.
C7_ContentIffSummaryOrSrc ==
    \A k \in 1..Len(entries_data) :
       LET article == ArticleOf(entries_data[k])
           img     == article.img_elem
           hasSrc  == img.found /\ img.src # None /\ img.src # << >>
       IN  /\ (entries_data[k].entry.content # None)
                 <=> (SummaryText(article) # << >> \/ hasSrc)
           /\ entries_data[k].entry.content =
                 ExpectedContent(SummaryText(article) # << >>, hasSrc,
                                 IF img.alt = None THEN << >> ELSE img.alt)
           /\ (entries_data[k].entry.summary # None) <=> (SummaryText(article) # << >>)

\* an entry made from an article with an image node that has an alt and no
\* src, and no summary: it has no content
C7_Witness ==
    \E k \in 1..Len(entries_data) :
       /\ ArticleOf(entries_data[k]).img_elem.found
       /\ ArticleOf(entries_data[k]).img_elem.src = None
       /\ ArticleOf(entries_data[k]).img_elem.alt = << "A" >>
       /\ ArticleOf(entries_data[k]).summary_elem = None
       /\ entries_data[k].entry.content = None

\* C8: once the entries are sorted the full document is written, then the
\* recent one, whether or not the first write fails; each write reports its
\* own outcome, and a run fails only before the extraction is complete.
C8_BothWritesAttempted ==
    /\ pc \in {"fetch", "create", "extract", "save_full"} => WriteReports = << >>
    /\ pc = "save_recent" =>
          /\ Len(WriteReports) = 1
          /\ WriteReports[1].arg = "atom.xml"
    /\ pc = "done" =>
          /\ Len(WriteReports) = 2
          /\ WriteReports[1].arg = "atom.xml"
          /\ WriteReports[2].arg = "atom-recent-20.xml"
    /\ pc = "exit1" =>
          /\ WriteReports = << >>
          /\ base_url = None \/ Len(entries_data) < Len(page)
    /\ \A i \in 1..Len(WriteReports) :
          /\ (WriteReports[i].kind = "saved") <=> Written(WriteReports[i].arg)
          /\ WriteReports[i].stream = IF Written(WriteReports[i].arg) THEN "stdout" ELSE "stderr"

\* the write of the full document failed and the recent document was written
C8_Witness ==
    /\ pc = "done"
    /\ ~Written("atom.xml")
    /\ Written("atom-recent-20.xml")
    /\ WriteReports[1].kind = "write_error"
    /\ WriteReports[2].kind = "saved"

\* the entry was given the wall clock's reading: its date text is missing or
\* malformed
FellBack(item) == DateMissing(ArticleOf(item)) \/ DateMalformed(ArticleOf(item))

\* the positions in entries_data of the entries that fell back
FallbackPositions == { k \in 1..Len(entries_data) : FellBack(entries_data[k]) }

\* C9 as stated: of two sorted entries that both fell back to the current
\* time, the one extracted earlier stands first.
C9_FallbacksInExtractionOrder ==
    Sorted =>
       \A p \in FallbackPositions : \A q \in FallbackPositions :
          p < q => entries_data[p].entry.article < entries_data[q].entry.article

\* C9 amended: with a wall clock that never goes backwards, two sorted entries
\* that both fell back to the current time stand in extraction order exactly
\* when they read the same instant; when the clock advanced between the two
\* readings the entry extracted later stands first.
C9_FallbacksByClock ==
    Sorted =>
       \A p \in FallbackPositions : \A q \in FallbackPositions :
          p < q
             => IF entries_data[p].dt = entries_data[q].dt
                THEN entries_data[p].entry.article < entries_data[q].entry.article
                ELSE /\ entries_data[p].entry.article > entries_data[q].entry.article
                     /\ DtLess(entries_data[q].dt, entries_data[p].dt)

\* two entries that fell back, the later extracted first, and two more in
\* extraction order
C9_Witness ==
    /\ Sorted
    /\ \E p \in FallbackPositions : \E q \in FallbackPositions :
          p < q /\ entries_data[p].entry.article > entries_data[q].entry.article
    /\ \E p \in FallbackPositions : \E q \in FallbackPositions :
          p < q /\ entries_data[p].entry.article < entries_data[q].entry.article

\* the feed element without its entries
Envelope(feed) == [feed EXCEPT !.children = << >>]

\* C10: the base feed element keeps its metadata and no entry through every
\* save; every document written carries that same metadata, and the recent
\* document holds the first entries of the sort and nothing else.
C10_BaseFeedUntouched ==
    pc \in {"extract", "save_full", "save_recent", "done"} =>
       /\ base_feed.children = << >>
       /\ \E t \in 0..clock : base_feed = base_feed_element(base_url, Now(t))
       /\ \A f \in DOMAIN files : Written(f) => Envelope(files[f][1].feed) = base_feed
       /\ Written("atom-recent-20.xml") =>
             ChildrenOf("atom-recent-20.xml") =
                [i \in 1..Min(20, Len(page)) |-> entries_data[i].entry]

\* both documents written from a page of several articles
C10_Witness ==
    /\ pc = "done"
    /\ Len(page) >= 2
    /\ Written("atom.xml") /\ Written("atom-recent-20.xml")
    /\ Len(ChildrenOf("atom.xml")) = Len(page)
    /\ base_feed.children = << >>
====
